---- MODULE Spec2Model ----
(***************************************************************************)
(* Model of audial.functions.stem_split.stem_split                         *)
(* (src/audial/functions/stem_split.py): submission of a stem-split job,   *)
(* the status polling loop with its backoff, deadline and attempt budget,  *)
(* the extraction of the stem section, the construction of the stem URLs   *)
(* and the downloads.                                                      *)
(*                                                                         *)
(* Time is counted in tenths of a second, so that the backoff              *)
(* 5 * (1 + attempt * 0.1) s = 5.0, 5.5, 6.0, ... is an integer            *)
(* (50, 55, 60, ...).  The Python expression is evaluated in binary        *)
(* floating point and differs from these values by at most a few ulps.     *)
(***************************************************************************)
EXTENDS Integers, Sequences, FiniteSets, TLC

VARIABLES
    entry,            \* "cli": the stem-split command of the CLI; "sdk": a
                      \* direct call of audial.stem_split
    cliValue,         \* value of the --stems option
    cliExit,          \* how the CLI command ended ("none": not yet, or no CLI)
    cliMsg,           \* first line written by _handle_error
    stems,            \* the argument, then the local `stems` (line 62)
    algorithm,        \* the argument `algorithm`
    target_bpm,       \* the argument `target_bpm`
    rejected,         \* the names listed by ValueError / click.BadParameter
    dirCreated,       \* os.makedirs(results_dir) was done (line 70)
    uploaded,         \* proxy.upload_file was done (line 83)
    sent,             \* the arguments proxy.run_stem_splitter was called with
    pc,               \* position in the command and in stem_split
    exe_id,           \* execution["exeId"] (line 79)
    new_exe_id,       \* id used for polling (lines 159, 163, 169)
    result,           \* the local `result` (lines 157, 162, 168, 191)
    attempt,          \* loop index of `for attempt in range(max_retries)`
    clock,            \* time.time() - start_time, in tenths of a second
    slept,            \* total time spent in time.sleep, tenths of a second
    lastSleep,        \* argument of the last time.sleep call (0: none yet)
    sleeps,           \* number of time.sleep calls
    queries,          \* number of proxy.get_execution calls
    lastEvent,        \* what the last step of the call did
    lastResponse,     \* value returned by the last get_execution that returned
    seen,             \* kinds of events the polling loop has met
    loopExit,         \* how line 215 was reached: "direct", "break",
                      \* "exhausted" (or "exhausted_overdue", past the deadline)
    submitRaised,     \* run_stem_splitter raised (line 165)
    stems_data,       \* result["stem"] once it is read (line 224)
    result_exe_id,    \* line 229
    stem_urls,        \* line 232
    idx,              \* position of the download loop in stem_urls
    attempted,        \* URLs handed to requests.get, in order
    downloaded_files, \* line 263: the filenames stored (keys of the dict)
    outcome,          \* "none", "returned", "AudialError", "ValueError"
    err               \* the message of the exception raised to the caller

callVars == <<entry, cliValue, cliExit, cliMsg, stems, algorithm, target_bpm,
              rejected, dirCreated, uploaded, sent>>

vars == <<callVars, pc, exe_id, new_exe_id, result, attempt, clock, slept, lastSleep,
          sleeps, queries, lastEvent, lastResponse, seen, loopExit,
          submitRaised, stems_data,
          result_exe_id, stem_urls, idx, attempted, downloaded_files,
          outcome, err>>

\* ------------------------------------------------------------------ bounds
\* duration of a slow status query, tenths of a second (a fast one takes 0)
SlowQuery == 3000
\* number of slow status queries in one run
MaxSlow == 2
\* number of entries of a stem section
MaxStems == 2
\* number of names in the `stems` argument
MaxStemArgs == 2
\* length of the --stems value, in symbols
MaxCliLen == 3

\* ------------------------------------------------- polling parameters
\* lines 176-179; the three durations in tenths of a second (5 s, 30 s, 600 s)
max_retries == 20
backoff == 50
max_backoff == 300
max_processing_time == 6000

Min(a, b) == IF a <= b THEN a ELSE b

\* ------------------------------------------------------------- payloads
\* A value returned by the service (run_stem_splitter, get_execution) is
\* None, a value that is no dict, the empty dict, or a dict.  Of a dict the
\* model keeps the keys stem_split reads: "state", "stem", "error", "exeId".
\* stem: "absent" (no key), "notdict", "empty" ({}), "full" (non-empty dict).
States == {"pending", "processing", "completed", "failed"}
StemKinds == {"absent", "notdict", "empty", "full"}

Payload(k, st, sm, er, id) ==
    [kind |-> k, state |-> st, stem |-> sm, error |-> er, exeId |-> id]

None == Payload("none", "absent", "absent", "absent", "absent")
NotADict == Payload("other", "absent", "absent", "absent", "absent")
EmptyDict == Payload("emptydict", "absent", "absent", "absent", "absent")

Dicts ==
    {Payload("dict", st, sm, "absent", id) :
        st \in {"pending", "processing"}, sm \in {"absent", "full"},
        id \in {"absent"}}
    \cup {Payload("dict", "completed", sm, "absent", id) :
        sm \in StemKinds, id \in {"absent", "E2"}}
    \cup {Payload("dict", "failed", sm, er, "absent") :
        sm \in {"absent", "full"}, er \in {"absent", "model error"}}

Responses == Dicts \cup {None, NotADict, EmptyDict}

\* isinstance(x, dict)
IsDict(p) == p.kind \in {"dict", "emptydict"}
\* bool(x) of Python: None and {} are falsy
Truthy(p) == p.kind \in {"dict", "other"}
\* x.get("state")
GetState(p) == p.state
\* x.get("exeId", default)
GetExeId(p, default) == IF p.exeId = "absent" THEN default ELSE p.exeId
\* x.get("error", "Unknown error")
GetError(p) == IF p.error = "absent" THEN "Unknown error" ELSE p.error

NoErr == [outer |-> "", inner |-> "", arg |-> "", secs |-> 0]
\* line 303: every exception of the workflow is wrapped
Wrapped(inner, arg, secs) ==
    [outer |-> "Stem splitting failed", inner |-> inner, arg |-> arg,
     secs |-> secs]

\* ------------------------------------------------------------ arguments
\* A string is a sequence of symbols; a symbol is a word or the comma.
\* ALL_STEM_OPTIONS and DEFAULT_STEM_OPTIONS as the docstring lists them.
Word(w) == <<w>>
ALL_STEM_OPTIONS ==
    { Word("vocals"), Word("drums"), Word("bass"), Word("other"),
      Word("full_song_without_vocals"), Word("full_song_without_drums"),
      Word("full_song_without_bass"), Word("full_song_without_other") }
DEFAULT_STEM_OPTIONS ==
    <<Word("vocals"), Word("drums"), Word("bass"), Word("other")>>

\* Optional[List[str]]: None or a list of strings
NoneStems == [isNone |-> TRUE, names |-> <<>>]
ListStems(l) == [isNone |-> FALSE, names |-> l]
\* Optional[str]: None or a string
NoValue == [isNone |-> TRUE, chars |-> <<>>]
StrValue(c) == [isNone |-> FALSE, chars |-> c]

SeqsUpTo(S, n) == UNION { [1..k -> S] : k \in 0..n }

\* the values of the `stems` argument
StemNames == { Word("vocals"), Word("drums"), Word("kick") }
StemArgs == {NoneStems} \cup { ListStems(l) : l \in SeqsUpTo(StemNames, MaxStemArgs) }
\* the values of the --stems option
Symbols == {"vocals", "kick", ","}
CliValues == {NoValue} \cup { StrValue(c) : c \in SeqsUpTo(Symbols, MaxCliLen) }
Algorithms == {"primaudio", "htdemucs"}
TargetBpms == {"None", "140"}

NotSent == [called |-> FALSE]

\* str.split(","): the pieces between the commas
RECURSIVE Split(_)
Split(c) ==
    IF \A i \in DOMAIN c : c[i] # ","
    THEN <<c>>
    ELSE LET k == CHOOSE i \in DOMAIN c :
                    c[i] = "," /\ \A j \in 1..(i - 1) : c[j] # ","
         IN <<SubSeq(c, 1, k - 1)>> \o Split(SubSeq(c, k + 1, Len(c)))

\* commands.py line 26 as a mutation: only the first name is tested
CliInvalidStems_firstOnly(l) ==
    SelectSeq(SubSeq(l, 1, 1), LAMBDA x : x \notin ALL_STEM_OPTIONS)
\* commands.py line 26
CliInvalidStems(l) == SelectSeq(l, LAMBDA x : x \notin ALL_STEM_OPTIONS)
\* stem_split.py line 54
InvalidStems(l) == SelectSeq(l, LAMBDA x : x \notin ALL_STEM_OPTIONS)

\* the state before the call, for the given arguments
InitWith(e, v, st, alg, bpm) ==
    /\ entry = e
    /\ cliValue = v
    /\ cliExit = "none"
    /\ cliMsg = ""
    /\ stems = st
    /\ algorithm = alg
    /\ target_bpm = bpm
    /\ rejected = <<>>
    /\ dirCreated = FALSE
    /\ uploaded = FALSE
    /\ sent = NotSent
    /\ pc = IF e = "cli" THEN "cli" ELSE "validate"
    /\ exe_id = "none"
    /\ new_exe_id = "none"
    /\ result = None
    /\ attempt = 0
    /\ clock = 0
    /\ slept = 0
    /\ lastSleep = 0
    /\ sleeps = 0
    /\ queries = 0
    /\ lastEvent = "none"
    /\ lastResponse = None
    /\ seen = {}
    /\ loopExit = "none"
    /\ submitRaised = FALSE
    /\ stems_data = <<>>
    /\ result_exe_id = "none"
    /\ stem_urls = <<>>
    /\ idx = 0
    /\ attempted = <<>>
    /\ downloaded_files = {}
    /\ outcome = "none"
    /\ err = NoErr

\* `audial stem-split FILE`: the command without options, which calls
\* audial.stem_split with stems = None and the default algorithm
Init == InitWith("cli", NoValue, NoneStems, "primaudio", "None")

\* the command with any --stems value, and direct calls with any arguments
InitArgs ==
    \/ \E v \in CliValues, bpm \in TargetBpms :
          InitWith("cli", v, NoneStems, "primaudio", bpm)
    \/ \E st \in StemArgs, alg \in Algorithms, bpm \in TargetBpms :
          InitWith("sdk", NoValue, st, alg, bpm)

pollVars == <<attempt, clock, slept, lastSleep, sleeps, queries, seen,
              lastResponse>>
loopVars == <<attempt, clock, slept, lastSleep, sleeps, queries>>
tailVars == <<stems_data, result_exe_id, stem_urls, idx, attempted,
              downloaded_files>>

\* raise at lines 76-299, caught at line 301, re-raised as AudialError
Fail(inner, arg, secs) ==
    /\ pc' = "done"
    /\ outcome' = "AudialError"
    /\ err' = Wrapped(inner, arg, secs)

\* --------------------------------------------------------- before polling
\* lines 52-59 as a mutation: the names are validated after the results
\* directory was made
ValidateStems_afterSetup ==
    /\ pc = "validate"
    /\ dirCreated' = TRUE
    /\ IF ~stems.isNone /\ InvalidStems(stems.names) # <<>>
       THEN /\ pc' = "done"
            /\ outcome' = "ValueError"
            /\ err' = [outer |-> "", inner |-> "Invalid stem type(s)",
                       arg |-> "", secs |-> 0]
            /\ rejected' = InvalidStems(stems.names)
            /\ lastEvent' = "invalid_stems"
       ELSE /\ pc' = "setup"
            /\ UNCHANGED <<outcome, err, lastEvent, rejected>>
    /\ UNCHANGED <<entry, cliValue, cliExit, cliMsg, stems, algorithm,
                   target_bpm, uploaded, sent>>
    /\ UNCHANGED <<loopExit, exe_id, new_exe_id, result, submitRaised>>
    /\ UNCHANGED pollVars
    /\ UNCHANGED tailVars

\* lines 52-59: `if stems is not None`; a list holding a name outside
\* ALL_STEM_OPTIONS raises ValueError, outside the try
ValidateStems ==
    /\ pc = "validate"
    /\ IF ~stems.isNone /\ InvalidStems(stems.names) # <<>>
       THEN /\ pc' = "done"
            /\ outcome' = "ValueError"
            /\ err' = [outer |-> "", inner |-> "Invalid stem type(s)",
                       arg |-> "", secs |-> 0]
            /\ rejected' = InvalidStems(stems.names)
            /\ lastEvent' = "invalid_stems"
       ELSE /\ pc' = "setup"
            /\ UNCHANGED <<outcome, err, lastEvent, rejected>>
    /\ UNCHANGED <<entry, cliValue, cliExit, cliMsg, stems, algorithm,
                   target_bpm, dirCreated, uploaded, sent>>
    /\ UNCHANGED <<loopExit, exe_id, new_exe_id, result, submitRaised>>
    /\ UNCHANGED pollVars
    /\ UNCHANGED tailVars

\* lines 61-73, outside the try: the default stems, then get_api_key,
\* get_user_id, os.makedirs(results_dir) and AudialProxy(). What they raise
\* leaves stem_split as it is: the authentication error that _handle_error
\* expects of a command, or the OSError of os.makedirs.
Setup ==
    /\ pc = "setup"
    /\ stems' = IF stems.isNone \/ stems.names = <<>>
                THEN ListStems(DEFAULT_STEM_OPTIONS) ELSE stems
    /\ \/ /\ dirCreated' = TRUE
          /\ pc' = "create"
          /\ UNCHANGED <<outcome, err, lastEvent>>
       \/ /\ pc' = "done"
          /\ outcome' = "AudialAuthError"
          /\ err' = [outer |-> "", inner |-> "get_api_key", arg |-> "",
                     secs |-> 0]
          /\ lastEvent' = "auth_failed"
          /\ UNCHANGED dirCreated
       \/ /\ pc' = "done"
          /\ outcome' = "OSError"
          /\ err' = [outer |-> "", inner |-> "makedirs", arg |-> "",
                     secs |-> 0]
          /\ lastEvent' = "makedirs_failed"
          /\ UNCHANGED dirCreated
    /\ UNCHANGED <<entry, cliValue, cliExit, cliMsg, algorithm, target_bpm,
                   rejected, uploaded, sent>>
    /\ UNCHANGED <<loopExit, exe_id, new_exe_id, result, submitRaised>>
    /\ UNCHANGED pollVars
    /\ UNCHANGED tailVars

\* lines 77-80
CreateExecution ==
    /\ pc = "create"
    /\ \/ /\ exe_id' = "E1"
          /\ pc' = "upload"
          /\ UNCHANGED <<outcome, err, lastEvent>>
       \/ /\ Fail("create_execution", "", 0)
          /\ lastEvent' = "create_failed"
          /\ UNCHANGED exe_id
    /\ UNCHANGED <<loopExit, new_exe_id, result, submitRaised>>
    /\ UNCHANGED pollVars
    /\ UNCHANGED tailVars
    /\ UNCHANGED callVars

\* lines 82-85
UploadFile ==
    /\ pc = "upload"
    /\ \/ /\ pc' = "analysis"
          /\ uploaded' = TRUE
          /\ UNCHANGED <<outcome, err, lastEvent>>
       \/ /\ Fail("upload_file", "", 0)
          /\ lastEvent' = "upload_failed"
          /\ UNCHANGED uploaded
    /\ UNCHANGED <<entry, cliValue, cliExit, cliMsg, stems, algorithm,
                   target_bpm, rejected, dirCreated, sent>>
    /\ UNCHANGED <<loopExit, exe_id, new_exe_id, result, submitRaised>>
    /\ UNCHANGED pollVars
    /\ UNCHANGED tailVars

\* lines 87-118
PrimaryAnalysis ==
    /\ pc = "analysis"
    /\ \/ /\ pc' = "submit"
          /\ UNCHANGED <<outcome, err, lastEvent>>
       \/ /\ Fail("run_primary_analysis", "", 0)
          /\ lastEvent' = "analysis_failed"
    /\ UNCHANGED <<loopExit, exe_id, new_exe_id, result, submitRaised>>
    /\ UNCHANGED pollVars
    /\ UNCHANGED tailVars
    /\ UNCHANGED callVars

\* lines 122-139: the request built from the arguments
stem_request ==
    [userId |-> "U1",
     original |-> "original.mp3",
     splitStemsRequest |-> [targetBPM |-> target_bpm,
                            targetKey |-> "None",
                            modelName |-> algorithm,
                            stemsRequested |-> stems]]

\* lines 145-151: of the request only the original file goes into the call;
\* the other arguments are the parameters of stem_split themselves
RunStemSplitterArgs ==
    [called |-> TRUE,
     exe_id |-> exe_id,
     original |-> stem_request.original,
     stems |-> stems,
     target_bpm |-> target_bpm,
     target_key |-> "None"]

\* lines 171-180: `if result is None` starts the polling loop
AfterSubmit(r) == IF r = None THEN "poll" ELSE "polled"

\* lines 143-163: run_stem_splitter returned stem_result
SubmitReturns ==
    /\ pc = "submit"
    /\ \E stem_result \in Responses :
        /\ IF IsDict(stem_result)
           THEN /\ result' = stem_result
                /\ new_exe_id' = GetExeId(stem_result, exe_id)
           ELSE /\ result' = None
                /\ new_exe_id' = exe_id
        /\ pc' = AfterSubmit(result')
        /\ lastEvent' = IF result' = None THEN "submitted" ELSE "direct"
        /\ loopExit' = IF result' = None THEN "none" ELSE "direct"
    /\ UNCHANGED <<exe_id, submitRaised, outcome, err>>
    /\ UNCHANGED pollVars
    /\ sent' = RunStemSplitterArgs
    /\ UNCHANGED <<entry, cliValue, cliExit, cliMsg, stems, algorithm,
                   target_bpm, rejected, dirCreated, uploaded>>
    /\ UNCHANGED tailVars

\* lines 165-169 as a mutation: the submission error is terminal
SubmitRaises_terminal ==
    /\ pc = "submit"
    /\ submitRaised' = TRUE
    /\ Fail("run_stem_splitter", "", 0)
    /\ lastEvent' = "submit_failed"
    /\ UNCHANGED <<loopExit, exe_id, new_exe_id, result>>
    /\ UNCHANGED pollVars
    /\ sent' = RunStemSplitterArgs
    /\ UNCHANGED <<entry, cliValue, cliExit, cliMsg, stems, algorithm,
                   target_bpm, rejected, dirCreated, uploaded>>
    /\ UNCHANGED tailVars

\* lines 165-169: run_stem_splitter raised; the error is printed and dropped
SubmitRaises ==
    /\ pc = "submit"
    /\ submitRaised' = TRUE
    /\ result' = None
    /\ new_exe_id' = exe_id
    /\ pc' = AfterSubmit(result')
    /\ lastEvent' = "submit_failed"
    /\ UNCHANGED <<loopExit, exe_id, outcome, err>>
    /\ UNCHANGED pollVars
    /\ sent' = RunStemSplitterArgs
    /\ UNCHANGED <<entry, cliValue, cliExit, cliMsg, stems, algorithm,
                   target_bpm, rejected, dirCreated, uploaded>>
    /\ UNCHANGED tailVars

\* ---------------------------------------------------------------- polling
\* line 207
WaitTime_linear(a) == backoff * (1 + a)
WaitTime(a) == Min(max_backoff, (backoff * (10 + a)) \div 10)

\* line 213: the wait after an exception inside the loop body
ErrorWait_grows(a) == WaitTime(a)
ErrorWait(a) == backoff

\* line 186
TimedOut_never(elapsed) == FALSE
TimedOut(elapsed) == elapsed > max_processing_time

\* durations a status query may take
QueryTimes ==
    {0} \cup (IF (clock - slept) \div SlowQuery < MaxSlow
              THEN {SlowQuery} ELSE {})

\* time.sleep(d) followed by the next iteration of the for loop
SleepAndContinue(d, took) ==
    /\ clock' = clock + took + d
    /\ slept' = slept + d
    /\ lastSleep' = d
    /\ sleeps' = sleeps + 1
    /\ attempt' = attempt + 1
    /\ pc' = "poll"

\* line 182 as a mutation: a loop without the attempt budget
InLoop_unbounded == pc = "poll"
InLoop == pc = "poll" /\ attempt < max_retries

\* lines 184-187
PollTimeout ==
    /\ InLoop
    /\ TimedOut(clock)
    /\ Fail("Processing timed out after", "", clock \div 10)
    /\ lastEvent' = "timeout"
    /\ UNCHANGED <<loopExit, exe_id, new_exe_id, result, submitRaised>>
    /\ UNCHANGED pollVars
    /\ UNCHANGED tailVars
    /\ UNCHANGED callVars

\* lines 189-191, 211-213: proxy.get_execution raised
PollQueryError ==
    /\ InLoop
    /\ ~TimedOut(clock)
    /\ \E took \in QueryTimes :
        /\ queries' = queries + 1
        /\ SleepAndContinue(ErrorWait(attempt), took)
    /\ seen' = seen \cup {"raise"}
    /\ lastEvent' = "query_error"
    /\ UNCHANGED <<loopExit, exe_id, new_exe_id, result, submitRaised, outcome,
                   err, lastResponse>>
    /\ UNCHANGED tailVars
    /\ UNCHANGED callVars

\* lines 191-193, 211-213: get_execution returned a value without .get, whose
\* AttributeError at line 193 is caught like any other exception
PollBadResponse ==
    /\ InLoop
    /\ ~TimedOut(clock)
    /\ \E took \in QueryTimes, r \in {p \in Responses : ~IsDict(p)} :
        /\ queries' = queries + 1
        /\ result' = r
        /\ lastResponse' = r
        /\ SleepAndContinue(ErrorWait(attempt), took)
    /\ seen' = seen \cup {"raise"}
    /\ lastEvent' = "bad_response"
    /\ UNCHANGED <<loopExit, exe_id, new_exe_id, submitRaised, outcome, err>>
    /\ UNCHANGED tailVars
    /\ UNCHANGED callVars

\* lines 191-199 as a mutation: no break, the loop waits and goes on
PollCompleted_noBreak ==
    /\ InLoop
    /\ ~TimedOut(clock)
    /\ \E took \in QueryTimes,
          r \in {p \in Responses : IsDict(p) /\ GetState(p) = "completed"} :
        /\ queries' = queries + 1
        /\ result' = r
        /\ lastResponse' = r
        /\ SleepAndContinue(WaitTime(attempt), took)
    /\ lastEvent' = "completed"
    /\ seen' = seen \cup {"completed"}
    /\ UNCHANGED <<loopExit, exe_id, new_exe_id, submitRaised, outcome, err>>
    /\ UNCHANGED tailVars
    /\ UNCHANGED callVars

\* lines 191-199 as a mutation: the wait comes before the test of the state
PollCompleted_sleepsFirst ==
    /\ InLoop
    /\ ~TimedOut(clock)
    /\ \E took \in QueryTimes,
          r \in {p \in Responses : IsDict(p) /\ GetState(p) = "completed"} :
        /\ queries' = queries + 1
        /\ result' = r
        /\ lastResponse' = r
        /\ clock' = clock + took + WaitTime(attempt)
        /\ slept' = slept + WaitTime(attempt)
        /\ lastSleep' = WaitTime(attempt)
        /\ sleeps' = sleeps + 1
        /\ pc' = "polled"
    /\ lastEvent' = "completed"
    /\ seen' = seen \cup {"completed"}
    /\ loopExit' = "break"
    /\ UNCHANGED <<exe_id, new_exe_id, submitRaised, outcome, err, attempt>>
    /\ UNCHANGED tailVars
    /\ UNCHANGED callVars

\* lines 191-199: state "completed" ends the loop by break
PollCompleted ==
    /\ InLoop
    /\ ~TimedOut(clock)
    /\ \E took \in QueryTimes,
          r \in {p \in Responses : IsDict(p) /\ GetState(p) = "completed"} :
        /\ queries' = queries + 1
        /\ result' = r
        /\ lastResponse' = r
        /\ clock' = clock + took
        /\ pc' = "polled"
    /\ lastEvent' = "completed"
    /\ seen' = seen \cup {"completed"}
    /\ loopExit' = "break"
    /\ UNCHANGED <<exe_id, new_exe_id, submitRaised, outcome, err>>
    /\ UNCHANGED <<attempt, slept, lastSleep, sleeps>>
    /\ UNCHANGED tailVars
    /\ UNCHANGED callVars

\* lines 202-204, 211-213: the AudialError raised for state "failed" is
\* raised inside the try of line 189 and caught by `except Exception`
PollFailed ==
    /\ InLoop
    /\ ~TimedOut(clock)
    /\ \E took \in QueryTimes,
          r \in {p \in Responses : IsDict(p) /\ GetState(p) = "failed"} :
        /\ queries' = queries + 1
        /\ result' = r
        /\ lastResponse' = r
        /\ SleepAndContinue(ErrorWait(attempt), took)
    /\ seen' = seen \cup {"failed"}
    /\ lastEvent' = "failed"
    /\ UNCHANGED <<loopExit, exe_id, new_exe_id, submitRaised, outcome, err>>
    /\ UNCHANGED tailVars
    /\ UNCHANGED callVars

\* lines 191-209: any other state
PollWait ==
    /\ InLoop
    /\ ~TimedOut(clock)
    /\ \E took \in QueryTimes,
          r \in {p \in Responses :
                    IsDict(p) /\ GetState(p) \notin {"completed", "failed"}} :
        /\ queries' = queries + 1
        /\ result' = r
        /\ lastResponse' = r
        /\ SleepAndContinue(WaitTime(attempt), took)
    /\ lastEvent' = "wait"
    /\ UNCHANGED <<loopExit, exe_id, new_exe_id, submitRaised, outcome, err, seen>>
    /\ UNCHANGED tailVars
    /\ UNCHANGED callVars

\* line 182: range(max_retries) is used up
PollExhausted ==
    /\ pc = "poll"
    /\ attempt >= max_retries
    /\ pc' = "polled"
    /\ lastEvent' = "exhausted"
    /\ loopExit' = IF clock > max_processing_time THEN "exhausted_overdue"
                   ELSE "exhausted"
    /\ UNCHANGED <<exe_id, new_exe_id, result, submitRaised, outcome, err>>
    /\ UNCHANGED pollVars
    /\ UNCHANGED tailVars
    /\ UNCHANGED callVars

Poll ==
    \/ PollTimeout
    \/ PollQueryError
    \/ PollBadResponse
    \/ PollCompleted
    \/ PollFailed
    \/ PollWait
    \/ PollExhausted

\* ------------------------------------------------------------- stem section
\* An entry of result["stem"] is a pair of its key and its value stem_info.
\* Of stem_info the model keeps: whether it is a dict, its "url" (a sequence of
\* path segments; <<>> when the key is absent or the value is empty) and its
\* "filename" (Missing when the key is absent, so that .get returns None).
Missing == "<missing>"

StemKey(i) ==
    CASE i = 1 -> "vocals" [] i = 2 -> "drums" [] i = 3 -> "bass"
      [] OTHER -> "other"

\* f"{stem_key}.mp3" (line 240)
KeyMp3(k) ==
    CASE k = "vocals" -> "vocals.mp3" [] k = "drums" -> "drums.mp3"
      [] k = "bass" -> "bass.mp3" [] OTHER -> "other.mp3"

\* f"file_{n}.mp3" (line 271)
FileN(n) ==
    CASE n = 1 -> "file_1.mp3" [] n = 2 -> "file_2.mp3"
      [] n = 3 -> "file_3.mp3" [] n = 4 -> "file_4.mp3"
      [] OTHER -> "file_n.mp3"

\* f"{filename}" of an f-string: None is formatted as the text None
Format(f) == IF f = Missing THEN "None" ELSE f

Info(d, u, f) == [isdict |-> d, url |-> u, filename |-> f]

StemInfos ==
    { Info(TRUE, <<"cdn", "lead.mp3">>, Missing),  \* URL given by the API
      Info(TRUE, <<"cdn", "">>, Missing),           \* URL ending in "/"
      Info(TRUE, <<>>, "stem.mp3"),                 \* no URL, a filename
      Info(TRUE, <<>>, Missing),                    \* no URL, no filename
      Info(FALSE, <<>>, Missing) }                  \* not a dict

\* the non-empty stem sections, in the iteration order of the dict
StemSections ==
    UNION { [1..n -> StemInfos] : n \in 1..MaxStems }

\* line 220 as a mutation: the emptiness test is dropped
NoStemData_noempty(p) == p.stem = "absent" \/ p.stem = "notdict"
\* line 220
NoStemData(p) == p.stem = "absent" \/ p.stem = "notdict" \/ p.stem = "empty"

\* the values result["stem"] may hold when line 224 reads it
SectionsOf(p) == IF p.stem = "full" THEN StemSections ELSE {<<>>}

user_id == "U1"

\* lines 235-250: the URL of one entry
BuiltUrl(f) ==
    <<"API_BASE_URL", "files", user_id, "execution", result_exe_id, "stem",
      Format(f)>>

HasUrl(info) == info.isdict /\ info.url # <<>>

\* lines 235-250 as a mutation: the URL given by the API is ignored
UrlOf_alwaysBuilt(i, info) ==
    BuiltUrl(IF info.isdict THEN info.filename ELSE KeyMp3(StemKey(i)))

UrlOf(i, info) ==
    IF HasUrl(info) THEN info.url
    ELSE BuiltUrl(IF info.isdict THEN info.filename ELSE KeyMp3(StemKey(i)))

\* line 269: os.path.basename(urlparse(url).path)
Basename(url) == url[Len(url)]

\* lines 269-271: the local name of the file of `url`
LocalName(url) ==
    IF Basename(url) = "" THEN FileN(Cardinality(downloaded_files) + 1)
    ELSE Basename(url)

\* lines 215-229.  The locals of the polling loop are not read after line 213
\* and are dropped here.
CheckResult ==
    /\ pc = "polled"
    /\ IF ~Truthy(result) \/ ~IsDict(result)
       THEN /\ Fail("Failed to retrieve execution results", "", 0)
            /\ lastEvent' = "no_result"
            /\ UNCHANGED <<stems_data, result_exe_id>>
            /\ UNCHANGED loopVars
       ELSE IF NoStemData(result)
       THEN /\ Fail("No stem data found in execution result", "", 0)
            /\ lastEvent' = "no_stem"
            /\ UNCHANGED <<stems_data, result_exe_id>>
            /\ UNCHANGED loopVars
       ELSE /\ stems_data' \in SectionsOf(result)
            /\ result_exe_id' = GetExeId(result, new_exe_id)
            /\ pc' = "urls"
            /\ lastEvent' = "extract"
            /\ attempt' = 0 /\ clock' = 0 /\ slept' = 0 /\ lastSleep' = 0
            /\ sleeps' = 0 /\ queries' = 0
            /\ UNCHANGED <<outcome, err>>
    /\ UNCHANGED <<loopExit, exe_id, new_exe_id, result, submitRaised, seen,
                   lastResponse>>
    /\ UNCHANGED <<stem_urls, idx, attempted, downloaded_files>>
    /\ UNCHANGED callVars

\* lines 231-261: the whole loop over stems_data.items(), then
\* os.makedirs(result_folder), whose error is wrapped like any other
BuildUrls ==
    /\ pc = "urls"
    /\ stem_urls' = [i \in DOMAIN stems_data |-> UrlOf(i, stems_data[i])]
    /\ stems_data' =
         [i \in DOMAIN stems_data |->
            IF stems_data[i].isdict
            THEN [stems_data[i] EXCEPT !.url = UrlOf(i, stems_data[i])]
            ELSE stems_data[i]]
    /\ \/ /\ pc' = "download"
          /\ lastEvent' = "urls"
          /\ UNCHANGED <<outcome, err>>
       \/ /\ Fail("makedirs", "", 0)
          /\ lastEvent' = "folder_failed"
    /\ UNCHANGED <<loopExit, exe_id, new_exe_id, result, submitRaised,
                   result_exe_id, idx, attempted, downloaded_files>>
    /\ UNCHANGED pollVars
    /\ UNCHANGED callVars

\* lines 266-287 as a mutation: a failed download ends the loop
Download_aborts ==
    /\ pc = "download"
    /\ idx < Len(stem_urls)
    /\ LET url == stem_urls[idx + 1]
           filename == LocalName(url)
       IN \E how \in {"ok", "status", "raise"} :
            /\ idx' = IF how = "ok" THEN idx + 1 ELSE Len(stem_urls)
            /\ attempted' = Append(attempted,
                                   [url |-> url, filename |-> filename,
                                    how |-> how])
            /\ downloaded_files' =
                 IF how = "ok" THEN downloaded_files \cup {filename}
                 ELSE downloaded_files
    /\ lastEvent' = "download"
    /\ UNCHANGED <<loopExit, exe_id, new_exe_id, result, submitRaised, outcome,
                   err, pc, stems_data, result_exe_id, stem_urls>>
    /\ UNCHANGED pollVars
    /\ UNCHANGED callVars

\* lines 266-287: one iteration of the download loop; requests.get answers
\* 200, another status, or an exception is raised
Download ==
    /\ pc = "download"
    /\ idx < Len(stem_urls)
    /\ LET url == stem_urls[idx + 1]
           filename == LocalName(url)
       IN \E how \in {"ok", "status", "raise"} :
            /\ idx' = idx + 1
            /\ attempted' = Append(attempted,
                                   [url |-> url, filename |-> filename,
                                    how |-> how])
            /\ downloaded_files' =
                 IF how = "ok" THEN downloaded_files \cup {filename}
                 ELSE downloaded_files
    /\ lastEvent' = "download"
    /\ UNCHANGED <<loopExit, exe_id, new_exe_id, result, submitRaised, outcome,
                   err, pc, stems_data, result_exe_id, stem_urls>>
    /\ UNCHANGED pollVars
    /\ UNCHANGED callVars

\* lines 289-299
Return ==
    /\ pc = "download"
    /\ idx = Len(stem_urls)
    /\ IF downloaded_files # {}
       THEN /\ pc' = "done"
            /\ outcome' = "returned"
            /\ lastEvent' = "return"
            /\ UNCHANGED err
       ELSE /\ Fail("Failed to download any stem files", "", 0)
            /\ lastEvent' = "no_files"
    /\ UNCHANGED <<loopExit, exe_id, new_exe_id, result, submitRaised>>
    /\ UNCHANGED pollVars
    /\ UNCHANGED tailVars
    /\ UNCHANGED callVars

\* ------------------------------------------------------------------- CLI
\* the non-model variables of a step of the stem-split command that happens
\* outside stem_split
sdkVars == <<pc, exe_id, new_exe_id, result, lastEvent, lastResponse, loopExit,
             submitRaised, outcome, err>>

\* commands.py lines 20-34, the callback of --stems, and lines 113-119, the
\* call of audial.stem_split with what the callback returned
CliValidateStems ==
    /\ pc = "cli"
    /\ IF cliValue.isNone \/ cliValue.chars = <<>>
       THEN /\ stems' = NoneStems
            /\ pc' = "validate"
            /\ UNCHANGED <<cliExit, rejected>>
       ELSE LET names == Split(cliValue.chars)
                invalid_stems == CliInvalidStems(names)
            IN IF invalid_stems # <<>>
               THEN /\ cliExit' = "BadParameter"
                    /\ rejected' = invalid_stems
                    /\ pc' = "done"
                    /\ UNCHANGED stems
               ELSE /\ stems' = ListStems(names)
                    /\ pc' = "validate"
                    /\ UNCHANGED <<cliExit, rejected>>
    /\ UNCHANGED <<entry, cliValue, cliMsg, algorithm, target_bpm, dirCreated,
                   uploaded, sent>>
    /\ UNCHANGED <<exe_id, new_exe_id, result, lastEvent, lastResponse, loopExit,
                   submitRaised, outcome, err>>
    /\ UNCHANGED loopVars
    /\ UNCHANGED seen
    /\ UNCHANGED tailVars

\* commands.py lines 55-57 as a mutation: no `except Exception` clause
HandleError_audialOnly ==
    /\ pc = "done"
    /\ entry = "cli"
    /\ cliExit = "none"
    /\ outcome # "none"
    /\ CASE outcome = "returned" ->
              /\ cliExit' = "returned"
              /\ cliMsg' = ""
         [] outcome = "AudialAuthError" ->
              /\ cliExit' = "exit 1"
              /\ cliMsg' = "Authentication error"
         [] outcome = "AudialError" ->
              /\ cliExit' = "exit 1"
              /\ cliMsg' = "Error"
         [] OTHER ->
              /\ cliExit' = "propagated"
              /\ cliMsg' = ""
    /\ UNCHANGED <<entry, cliValue, stems, algorithm, target_bpm, rejected,
                   dirCreated, uploaded, sent>>
    /\ UNCHANGED sdkVars
    /\ UNCHANGED loopVars
    /\ UNCHANGED seen
    /\ UNCHANGED tailVars

\* commands.py lines 43-59 around lines 110-126: the wrapper returns what the
\* body returns, or writes a message and calls sys.exit(1)
HandleError ==
    /\ pc = "done"
    /\ entry = "cli"
    /\ cliExit = "none"
    /\ outcome # "none"
    /\ CASE outcome = "returned" ->
              /\ cliExit' = "returned"
              /\ cliMsg' = ""
         [] outcome = "AudialAuthError" ->
              /\ cliExit' = "exit 1"
              /\ cliMsg' = "Authentication error"
         [] outcome = "AudialError" ->
              /\ cliExit' = "exit 1"
              /\ cliMsg' = "Error"
         [] OTHER ->
              /\ cliExit' = "exit 1"
              /\ cliMsg' = "Unexpected error"
    /\ UNCHANGED <<entry, cliValue, stems, algorithm, target_bpm, rejected,
                   dirCreated, uploaded, sent>>
    /\ UNCHANGED sdkVars
    /\ UNCHANGED loopVars
    /\ UNCHANGED seen
    /\ UNCHANGED tailVars

\* ------------------------------------------------------------ specification
Next ==
    \/ CliValidateStems
    \/ ValidateStems
    \/ Setup
    \/ CreateExecution
    \/ UploadFile
    \/ PrimaryAnalysis
    \/ SubmitReturns
    \/ SubmitRaises
    \/ Poll
    \/ CheckResult
    \/ BuildUrls
    \/ Download
    \/ Return
    \/ HandleError

Spec == Init /\ [][Next]_vars

\* the steps up to the submission, for every argument
NextArgs ==
    \/ CliValidateStems
    \/ ValidateStems
    \/ Setup
    \/ CreateExecution
    \/ UploadFile
    \/ PrimaryAnalysis
    \/ SubmitReturns
    \/ SubmitRaises
    \/ HandleError

SpecArgs == InitArgs /\ [][NextArgs]_vars

\* ------------------------------------------------------------------ claims
NoTerminalSeen == seen \cap {"failed", "completed"} = {}

\* C1 (as stated): once a status query has returned state "failed" the call
\* has ended with an error that carries the message of the service; no sleep
\* and no further query follows, so a first query answering "failed" leaves
\* zero sleeps.
C1_FailedFailsImmediately ==
    "failed" \in seen =>
        /\ pc = "done"
        /\ outcome = "AudialError"
        /\ err.arg = GetError(lastResponse)
        /\ (queries = 1 => sleeps = 0)

\* C2: once a status query has returned "completed" (no "failed" before it),
\* the loop is left by break, result is the payload of that response, and no
\* further status query is issued.
C2_StopsAtCompleted ==
    /\ [](("completed" \in seen /\ "failed" \notin seen) =>
            /\ pc \in {"polled", "urls", "download", "done"}
            /\ loopExit = "break"
            /\ result = lastResponse
            /\ IsDict(result) /\ result.state = "completed")
    /\ [][("completed" \in seen) => ~(queries' > queries)]_vars

C2_Witness ==
    /\ pc = "polled" /\ loopExit = "break" /\ seen = {"completed"}
    /\ queries = 3 /\ result.stem = "full" /\ result.exeId = "E2"

\* C3 (as stated): when the 20 attempts are used up, no status query has
\* returned a terminal state and the deadline is not exceeded, the call ends
\* with an error and never returns a success.
C3_ExhaustedAlwaysFails ==
    (pc = "done" /\ loopExit = "exhausted" /\ NoTerminalSeen) =>
        outcome = "AudialError"

\* C4: no status query is issued once the elapsed time exceeds the deadline;
\* the loop then raises the timeout error with the elapsed seconds, without a
\* query or a sleep, whatever number of attempts is left.
C4_DeadlineBeforeQuery ==
    [][ /\ (queries' > queries => clock <= 6000)
        /\ (pc = "poll" /\ attempt < 20 /\ clock > 6000) =>
              /\ pc' = "done"
              /\ outcome' = "AudialError"
              /\ err'.inner = "Processing timed out after"
              /\ err'.secs = clock \div 10
              /\ queries' = queries
              /\ sleeps' = sleeps ]_vars

C4_Witness ==
    /\ pc = "done" /\ lastEvent = "timeout" /\ NoTerminalSeen
    /\ attempt = 2 /\ queries = 2 /\ err.secs > 600

\* C5 (as stated): a submission that raised ends the call with an error and
\* starts no polling.
C5_SubmitErrorIsTerminal ==
    submitRaised => (pc = "done" /\ outcome = "AudialError" /\ queries = 0)

\* C5 (amended): a submission that raised is not terminal: the call goes on to
\* poll the execution created before, with no result yet; the errors of
\* create_execution, upload_file and run_primary_analysis end the call with
\* AudialError before any status query.
C5_SubmitErrorStartsPolling ==
    /\ (lastEvent = "submit_failed" =>
            /\ submitRaised
            /\ pc = "poll" /\ outcome = "none"
            /\ result = None /\ new_exe_id = exe_id /\ exe_id = "E1"
            /\ attempt = 0 /\ queries = 0)
    /\ (lastEvent \in {"create_failed", "upload_failed", "analysis_failed"} =>
            /\ pc = "done" /\ outcome = "AudialError"
            /\ queries = 0 /\ loopExit = "none" /\ ~submitRaised)

C5_Witness ==
    submitRaised /\ pc = "polled" /\ loopExit = "break" /\ queries = 2

\* C6: a status query that raises is not propagated: the step sleeps exactly
\* the base backoff, uses up one attempt of the budget of 20, passed the
\* deadline check, keeps the previous result and goes on polling.
C6_QueryErrorSwallowed ==
    [][ (lastEvent' = "query_error" /\ queries' = queries + 1) =>
            /\ pc = "poll" /\ pc' = "poll"
            /\ outcome' = "none" /\ err' = NoErr
            /\ attempt < 20 /\ attempt' = attempt + 1
            /\ clock <= 6000
            /\ lastSleep' = 50
            /\ sleeps' = sleeps + 1
            /\ slept' = slept + 50
            /\ result' = result ]_vars

C6_Witness ==
    /\ lastEvent = "query_error" /\ pc = "poll" /\ attempt = 20
    /\ seen = {"raise"} /\ result = None /\ slept = 1000

\* C7: after a non-terminal response at attempt index i the sleep is
\* min(cap, base * (1 + 0.1 * i)), base = 5 s, cap = 30 s; it never exceeds the
\* cap and does not decrease from one attempt to the next.
C7_Backoff ==
    /\ [](lastEvent = "wait" =>
            /\ (50 * (10 + (attempt - 1)) <= 3000 =>
                    10 * lastSleep = 50 * (10 + (attempt - 1)))
            /\ (50 * (10 + (attempt - 1)) > 3000 => lastSleep = 300)
            /\ lastSleep <= 300)
    /\ [][ (lastEvent = "wait" /\ lastEvent' = "wait"
            /\ attempt' = attempt + 1) => lastSleep' >= lastSleep ]_vars

C7_Witness ==
    lastEvent = "wait" /\ attempt = 20 /\ lastSleep = 145 /\ seen = {}

\* C8: when no query raised and the k-th query is the first to answer
\* "completed", all earlier answers being non-terminal, there were exactly k
\* queries and k-1 sleeps, of 5.0 s, 5.5 s, ...: none after the completed one.
C8_QueriesAndSleeps ==
    (pc = "polled" /\ loopExit = "break" /\ seen = {"completed"}) =>
        /\ queries = attempt + 1
        /\ sleeps = queries - 1
        /\ 2 * slept = 100 * sleeps + 5 * sleeps * (sleeps - 1)
        /\ (queries = 1 => lastSleep = 0)
        /\ (queries = 3 => slept = 105 /\ lastSleep = 55)

C8_Witness ==
    /\ pc = "polled" /\ loopExit = "break" /\ seen = {"completed"}
    /\ queries = 3 /\ sleeps = 2

\* C9: a result without a usable stem section (not a dict, no "stem", a
\* "stem" that is no mapping or is empty) ends the call with an error, with no
\* URL built and no download tried; a success always has downloaded files.
C9_NoStemIsAnError ==
    /\ (loopExit # "none" /\ pc # "polled"
        /\ (result.kind # "dict" \/ result.stem # "full")) =>
            /\ pc = "done"
            /\ outcome = "AudialError"
            /\ err.inner \in {"Failed to retrieve execution results",
                              "No stem data found in execution result"}
            /\ stem_urls = <<>> /\ attempted = <<>> /\ downloaded_files = {}
    /\ (outcome = "returned" =>
            result.stem = "full" /\ downloaded_files # {})

C9_Witness ==
    /\ pc = "done" /\ lastEvent = "no_stem" /\ loopExit = "break"
    /\ result.stem = "empty"

\* C10 (as stated): no URL built by stem_split ends in the placeholder None.
C10_NoPlaceholderUrl ==
    \A i \in DOMAIN stem_urls :
        (stem_urls[i][1] = "API_BASE_URL") => Basename(stem_urls[i]) # "None"

\* the URL the path convention gives for the name n
ConventionUrl(n) ==
    <<"API_BASE_URL", "files", "U1", "execution", result_exe_id, "stem", n>>

\* C11 (as stated): the loop over the stem section yields one URL per entry:
\* the URL of the entry when it carries a non-empty one, otherwise the URL of
\* the path convention for its filename, which is written back into the entry.
C11_UrlPerEntryWrittenBack ==
    [][ (pc = "urls" /\ pc' = "download") =>
            /\ Len(stem_urls') = Len(stems_data)
            /\ \A i \in DOMAIN stems_data :
                 IF stems_data[i].isdict /\ stems_data[i].url # <<>>
                 THEN /\ stem_urls'[i] = stems_data[i].url
                      /\ stems_data'[i] = stems_data[i]
                 ELSE /\ stem_urls'[i] = ConventionUrl(Basename(stem_urls'[i]))
                      /\ stems_data'[i].url = stem_urls'[i] ]_vars

\* C11 (amended): as above, where the filename is stem_info.get("filename")
\* formatted as text for an entry that is a mapping and "<stem key>.mp3" for
\* any other entry, and the URL is written back only into an entry that is a
\* mapping; an entry that is no mapping is left as it is.
C11_UrlPerEntry ==
    [][ (pc = "urls" /\ pc' = "download") =>
            /\ Len(stem_urls') = Len(stems_data)
            /\ Len(stems_data') = Len(stems_data)
            /\ \A i \in DOMAIN stems_data :
                 IF stems_data[i].isdict /\ stems_data[i].url # <<>>
                 THEN /\ stem_urls'[i] = stems_data[i].url
                      /\ stems_data'[i] = stems_data[i]
                 ELSE IF stems_data[i].isdict
                 THEN /\ stem_urls'[i] =
                            ConventionUrl(IF stems_data[i].filename = Missing
                                          THEN "None"
                                          ELSE stems_data[i].filename)
                      /\ stems_data'[i] =
                            [stems_data[i] EXCEPT !.url = stem_urls'[i]]
                 ELSE /\ stem_urls'[i] = ConventionUrl(KeyMp3(StemKey(i)))
                      /\ stems_data'[i] = stems_data[i] ]_vars

C11_Witness ==
    /\ pc = "download" /\ idx = 0 /\ Len(stem_urls) = 2
    /\ stem_urls[1] = <<"cdn", "lead.mp3">>
    /\ stem_urls[2] = <<"API_BASE_URL", "files", "U1", "execution", "E2",
                        "stem", "drums.mp3">>
    /\ ~stems_data[2].isdict

\* C15 (as stated): the stem URLs are built and the files downloaded only from
\* a result whose state is "completed".
C15_ExtractionOnlyAfterCompleted ==
    (pc \in {"urls", "download"} \/ lastEvent \in {"return", "no_files"}) =>
        (IsDict(result) /\ result.state = "completed")

\* C16: the polling loop makes at most 20 status queries and 20 sleeps; every
\* step of the loop either leaves it (to line 215 or by raising) or uses up
\* one attempt, and the loop can always take a step.
C16_PollingTerminates ==
    /\ [](/\ attempt <= 20 /\ queries <= 20 /\ sleeps <= 20
          /\ (pc = "poll" =>
                queries = attempt /\ sleeps = attempt /\ ENABLED Poll))
    /\ [][ pc = "poll" =>
             \/ pc' \in {"polled", "done"}
             \/ (pc' = "poll" /\ attempt' = attempt + 1) ]_vars

C16_Witness ==
    /\ pc = "polled" /\ loopExit = "exhausted" /\ queries = 20 /\ sleeps = 20
    /\ seen = {} /\ result.state = "pending"

\* C17: in one polling run the sleeps add up to at most 195 s and each is at
\* most 14.5 s, below the cap of 30 s; the timeout fires only when the queries
\* took more than 405 s; with instantaneous queries it never fires.
C17_SleepBudget ==
    /\ slept <= 1950
    /\ lastSleep <= 145
    /\ (lastEvent = "timeout" => clock - slept > 4050)
    /\ (clock = slept => (lastEvent # "timeout" /\ clock <= 6000))

C17_Witness ==
    /\ pc = "polled" /\ loopExit = "exhausted" /\ slept = 1950
    /\ clock = slept /\ lastSleep = 145

\* C18: when the download loop has ended, every URL built was tried once, in
\* order, whatever the earlier downloads did; the files stored are exactly
\* those of the downloads that succeeded; the call returns if one succeeded
\* and raises if none did.
C18_DownloadsIndependent ==
    /\ (pc = "download" => Len(attempted) = idx)
    /\ (lastEvent \in {"return", "no_files"} =>
          /\ pc = "done"
          /\ Len(attempted) = Len(stem_urls)
          /\ \A i \in DOMAIN attempted : attempted[i].url = stem_urls[i]
          /\ downloaded_files =
               {attempted[i].filename :
                  i \in {j \in DOMAIN attempted : attempted[j].how = "ok"}}
          /\ (outcome = "returned" <=>
                \E i \in DOMAIN attempted : attempted[i].how = "ok")
          /\ (outcome = "AudialError" <=>
                \A i \in DOMAIN attempted : attempted[i].how # "ok")
          /\ (outcome = "AudialError" =>
                err.inner = "Failed to download any stem files"))

C18_Witness ==
    /\ pc = "done" /\ outcome = "returned" /\ Len(attempted) = 2
    /\ attempted[1].how = "raise" /\ attempted[2].how = "ok"
    /\ downloaded_files = {"file_1.mp3"}

\* AudialAuthError is caught before AudialError by _handle_error: it is taken
\* as a kind of AudialError
IsAudialError(o) == o \in {"AudialError", "AudialAuthError"}

\* C12: a call of stem_split with valid stems either returns the execution
\* payload with a non-empty map of downloaded files or raises AudialError;
\* no other exception type escapes.
C12_ReturnsOrAudialError ==
    (pc = "done" /\ outcome # "none" /\ rejected = <<>>) =>
        \/ /\ outcome = "returned"
           /\ IsDict(result)
           /\ downloaded_files # {}
        \/ IsAudialError(outcome)

HasInvalidName(st) ==
    ~st.isNone /\ \E i \in DOMAIN st.names : st.names[i] \notin ALL_STEM_OPTIONS

\* C13: a stems argument with a name outside ALL_STEM_OPTIONS makes stem_split
\* raise ValueError before any side effect: no results directory, no
\* execution, no upload, no submission and no status query; and ValueError is
\* raised for nothing else.
C13_InvalidStemsRaiseFirst ==
    /\ (pc \notin {"cli", "validate"} /\ HasInvalidName(stems)) =>
          /\ pc = "done"
          /\ outcome = "ValueError"
          /\ \A i \in DOMAIN stems.names :
                stems.names[i] \notin ALL_STEM_OPTIONS =>
                    \E j \in DOMAIN rejected : rejected[j] = stems.names[i]
          /\ ~dirCreated
          /\ exe_id = "none"
          /\ ~uploaded
          /\ sent = NotSent
          /\ queries = 0
    /\ outcome = "ValueError" => HasInvalidName(stems)

C13_Witness ==
    /\ outcome = "ValueError"
    /\ Len(stems.names) = 2
    /\ Len(rejected) = 1

\* C14: the `algorithm` passed by the caller is part of what is submitted to
\* the service, so that calls differing only in `algorithm` submit different
\* requests.
C14_AlgorithmSubmitted ==
    sent.called =>
        \E f \in DOMAIN sent \cap {"algorithm", "modelName"} :
            sent[f] = algorithm

\* ",".join(l)
RECURSIVE JoinComma(_)
JoinComma(l) ==
    IF l = <<>> THEN <<>>
    ELSE IF Len(l) = 1 THEN l[1]
    ELSE l[1] \o <<",">> \o JoinComma(Tail(l))

\* l is the list of the pieces of c between its commas
IsCommaSplit(l, c) ==
    /\ l # <<>>
    /\ \A i \in DOMAIN l : \A j \in DOMAIN l[i] : l[i][j] # ","
    /\ JoinComma(l) = c

\* C19: for a non-empty --stems value, _validate_stems returns the comma-split
\* list exactly when every element is in ALL_STEM_OPTIONS, and otherwise
\* rejects the parameter naming every invalid element; an empty or missing
\* value yields None; no list the CLI accepts makes stem_split raise
\* ValueError.
C19_CliAgreesWithSdk ==
    /\ [](/\ entry = "cli" => outcome # "ValueError"
          /\ ~cliValue.isNone =>
                IsCommaSplit(Split(cliValue.chars), cliValue.chars))
    /\ [][ pc = "cli" =>
             IF cliValue.isNone \/ cliValue.chars = <<>>
             THEN /\ stems' = NoneStems
                  /\ pc' = "validate"
                  /\ cliExit' = "none"
             ELSE LET names == Split(cliValue.chars)
                      bad == { i \in DOMAIN names :
                                  names[i] \notin ALL_STEM_OPTIONS }
                  IN IF bad = {}
                     THEN /\ stems' = ListStems(names)
                          /\ pc' = "validate"
                          /\ cliExit' = "none"
                     ELSE /\ cliExit' = "BadParameter"
                          /\ pc' = "done"
                          /\ Len(rejected') = Cardinality(bad)
                          /\ \A i \in bad :
                                \E j \in DOMAIN rejected' :
                                    rejected'[j] = names[i] ]_vars

C19_Witness ==
    /\ entry = "cli"
    /\ Len(cliValue.chars) = 3
    /\ pc = "setup"
    /\ Len(stems.names) = 2

\* C20: under _handle_error no exception of the command body propagates: a
\* message is written and the process exits with status 1; a body that raises
\* nothing has its return passed through and no exit is forced.
C20_HandleError ==
    /\ [](/\ cliExit # "propagated"
          /\ (pc = "done" /\ entry = "cli" /\ outcome # "none"
                /\ cliExit = "none") => ENABLED HandleError)
    /\ [][ (pc = "done" /\ entry = "cli" /\ outcome # "none"
              /\ cliExit = "none") =>
             IF outcome = "returned"
             THEN cliExit' = "returned" /\ cliMsg' = ""
             ELSE cliExit' = "exit 1" /\ cliMsg' # "" ]_vars

C20_Witness ==
    /\ cliExit = "exit 1"
    /\ outcome = "OSError"
    /\ cliMsg = "Unexpected error"

====
